---- MODULE Spec2Model ----
(***************************************************************************)
(* A model of the borrow_as crate (src/src/lib.rs): the two handle kinds   *)
(* Ref and Mut, the lifetime-tagged container LifeRef and its chain API,   *)
(* together with the part of the host language the crate relies on: the    *)
(* spans (lifetimes) a caller's borrows live for and the loans the borrow  *)
(* checker tracks.                                                         *)
(*                                                                         *)
(* The owner is the struct of the crate's doc test reduced to one scalar   *)
(* field (location 1) and one sequence field of two elements (location 2). *)
(* The owner stays allocated for the whole behaviour, as `x` does in the   *)
(* doc test: a span that ends is a borrow that ends, not memory freed.     *)
(*                                                                         *)
(* A handle stores an address only (Ref is *const T, Mut is *const Cell):  *)
(* the fields loc and span of a handle record are provenance, the borrow   *)
(* the handle was made from; no operation of the crate reads them.         *)
(***************************************************************************)
EXTENDS Integers, Sequences, FiniteSets, TLC

\* Bounds of the model.
MaxSpans == 2      \* spans the caller opens in one behaviour
MaxSteps == 3      \* steps of the chain API the caller takes in one behaviour

\* The largest tuple the chain API extends ("up to 16 elements").
MaxArity == 16

\* The owner's fields, their shapes and values.
Locs == {1, 2}
Width(l) == IF l = 1 THEN 1 ELSE 2
Vals == {0, 1}
ValuesOf(l) == [1..Width(l) -> Vals]

\* 'static: the span that never ends.
Static == 0

VARIABLES
    mem,        \* owner memory: location -> sequence of values
    open,       \* stack of the spans that have not ended, outermost first
    nextSpan,   \* next fresh span id
    steps,      \* steps of the chain API taken so far
    loans,      \* borrows the borrow checker holds live: [loc, span, mut]
    cs,         \* the containers (LifeRef values) the caller holds
    stash,      \* the handle a closure passed to map_life moved into a captured cell
    written,    \* history: per place, the value last stored into it
    ev          \* the last operation: its name, operands and result

vars == <<mem, open, nextSpan, steps, loans, cs, stash, written, ev>>

----------------------------------------------------------------------------
\* Values a LifeRef can wrap.

Borrow(l, s, m) == [loc |-> l, span |-> s, mut |-> m]

Ref(r) == [kind |-> "Ref", ptr |-> r.loc, loc |-> r.loc, span |-> r.span, elems |-> <<>>]

Cell_from_mut(r) == r.loc

Mut(r) == [kind |-> "Mut", ptr |-> Cell_from_mut(r), loc |-> r.loc, span |-> r.span, elems |-> <<>>]

Tup(es) == [kind |-> "Tup", ptr |-> 0, loc |-> 0, span |-> Static, elems |-> es]

Plain == [kind |-> "Val", ptr |-> 0, loc |-> 0, span |-> Static, elems |-> <<>>]

None == [kind |-> "None", ptr |-> 0, loc |-> 0, span |-> Static, elems |-> <<>>]

LifeRef(a, t) == [tag |-> a, inner |-> t]

IsHandle(v) == v.kind \in {"Ref", "Mut"}

RECURSIVE Flat(_), FlatFrom(_, _)
Flat(v) ==
    IF IsHandle(v) THEN <<v>>
    ELSE IF v.kind = "Tup" THEN FlatFrom(v.elems, 1)
    ELSE <<>>
FlatFrom(es, k) ==
    IF k > Len(es) THEN <<>> ELSE Flat(es[k]) \o FlatFrom(es, k + 1)

Range(s) == {s[k] : k \in 1..Len(s)}

----------------------------------------------------------------------------
\* Spans and the borrow checker.

LiveSpans == {Static} \cup Range(open)

IsLive(s) == s \in LiveSpans

\* 'a: 'b. Spans nest, so a span opened earlier ends later.
Outlives(a, b) == a <= b

Shorter(a, b) == IF Outlives(a, b) THEN b ELSE a

\* A shared borrow needs no live exclusive loan on the place, an exclusive
\* borrow needs no live loan at all.
CanBorrow(r) ==
    /\ r.span \in Range(open)
    /\ \A b \in loans : b.loc = r.loc => (~r.mut /\ ~b.mut)

----------------------------------------------------------------------------
\* Events. An operation on a handle records the handle, the element index,
\* the value passed or returned and the boolean returned; a step of the
\* chain API records the position of the container it returned and the
\* lifetime tags of the containers and borrows it was given.

Event(op, h, i, v, b) == [op |-> op, h |-> h, idx |-> i, val |-> v, res |-> b]

Called(op, i, tags) == Event(op, None, i, tags, FALSE)

----------------------------------------------------------------------------
\* The chain API of LifeRef, as functions on container values.

wrap_ref(r) == LifeRef(r.span, Tup(<<Ref(r)>>))

wrap_mut(r) == LifeRef(r.span, Tup(<<Mut(r)>>))

wrap_life(c) == LifeRef(c.tag, Tup(<<c.inner>>))

add_ref_prepend(c, r) ==
    LifeRef(Shorter(c.tag, r.span), Tup(<<Ref(r)>> \o c.inner.elems))

\* self and r are both used at one lifetime 'a: the shorter of the two.
add_ref(c, r) ==
    LifeRef(Shorter(c.tag, r.span), Tup(Append(c.inner.elems, Ref(r))))

add_mut(c, r) ==
    LifeRef(Shorter(c.tag, r.span), Tup(Append(c.inner.elems, Mut(r))))

add_life_where_any(b, a) == TRUE

\* where 'b: 'a
add_life_where(b, a) == Outlives(b, a)

add_life_flat(c, o, a) == LifeRef(a, Tup(c.inner.elems \o o.inner.elems))

\* The result carries self's lifetime 'a; other.inner becomes ONE element.
add_life(c, o, a) == LifeRef(a, Tup(Append(c.inner.elems, o.inner)))

\* The closures a caller passes to map_life: the identity, a projection of
\* the first element (destructuring into a view), and a closure over a
\* 1-tuple of a handle that moves the handle into a cell it captured (a
\* Cell<Option<Ref<T>>> declared outside the borrow's span) and returns ().
Fns == {"id", "fst", "stash"}

ApplyF(f, t) ==
    CASE f = "id" -> t
      [] f = "fst" -> t.elems[1]
      [] f = "stash" -> Tup(<<>>)

\* What the closure leaves in its captured cell.
Captured(f, t, st) == IF f = "stash" THEN t.elems[1] ELSE st

\* Whether the closure type-checks against the wrapped value (and, for the
\* moving closure, whether its cell is still empty).
Accepts(f, t, st) ==
    CASE f = "id" -> TRUE
      [] f = "fst" -> t.kind = "Tup" /\ Len(t.elems) >= 1
      [] f = "stash" -> st = None /\ t.kind = "Tup" /\ Len(t.elems) = 1
                                  /\ IsHandle(t.elems[1])

map_life_static(c, f) == LifeRef(Static, ApplyF(f, c.inner))

map_life(c, f) == LifeRef(c.tag, ApplyF(f, c.inner))

LifeRef_from(t, a) == LifeRef(a, t)

LifeRef_deref(c) == c.inner

\* T: Append<_>: the wrapped value is a tuple with room for one more element.
CanAppend(c) == c.inner.kind = "Tup" /\ Len(c.inner.elems) < MaxArity

----------------------------------------------------------------------------
\* Handles: what they read and write.

Ref_deref(m, h) == m[h.ptr]

Ref_eq_first(m, h, u) == Ref_deref(m, h)[1] = u[1]

Ref_eq(m, h, u) == Ref_deref(m, h) = u

\* Deref for Mut: the cell the handle points at.
Mut_deref(h) == h.ptr

\* The private Mut::get: an exclusive view of the cell, read as &T.
Mut_get(m, h) == m[h.ptr]

Mut_eq(m, h, u) == Mut_get(m, h) = u

\* handle.get(), or as_slice_of_cells()[i].get(): a copy of element i.
Cell_get(m, h, i) == m[Mut_deref(h)][i]

Cell_set_lost(m, h, i, v) == m

Cell_set_first(m, h, i, v) == [m EXCEPT ![Mut_deref(h)][1] = v]

Cell_set_all(m, h, i, v) ==
    [m EXCEPT ![Mut_deref(h)] = [k \in DOMAIN m[Mut_deref(h)] |-> v]]

\* handle.set(v), or as_slice_of_cells()[i].set(v).
Cell_set(m, h, i, v) == [m EXCEPT ![Mut_deref(h)][i] = v]

\* Every handle the caller can reach: through a container it holds, or in
\* the cell a closure moved it into.
Reachable ==
    UNION {Range(Flat(LifeRef_deref(cs[i]))) : i \in 1..Len(cs)} \cup Range(Flat(stash))

Handles(k) == {h \in Reachable : h.kind = k}

----------------------------------------------------------------------------
\* Initial state: the owner holds zeros, nothing is borrowed.

Init ==
    /\ mem = [l \in Locs |-> [k \in 1..Width(l) |-> 0]]
    /\ open = <<>>
    /\ nextSpan = 1
    /\ steps = 0
    /\ loans = {}
    /\ cs = <<>>
    /\ stash = None
    /\ written = [l \in Locs |-> [k \in 1..Width(l) |-> 0]]
    /\ ev = Called("init", 0, <<>>)

----------------------------------------------------------------------------
\* The caller's scopes.

OpenSpan ==
    /\ nextSpan <= MaxSpans
    /\ open' = Append(open, nextSpan)
    /\ nextSpan' = nextSpan + 1
    /\ ev' = Called("open_span", 0, <<>>)
    /\ UNCHANGED <<mem, steps, loans, cs, stash, written>>

\* The innermost span ends: its loans end and every container tagged with
\* it is gone. The captured cell has no lifetime parameter and stays.
CloseSpan ==
    /\ open # <<>>
    /\ LET s == open[Len(open)] IN
        /\ open' = SubSeq(open, 1, Len(open) - 1)
        /\ loans' = {b \in loans : b.span # s}
        /\ cs' = SelectSeq(cs, LAMBDA c : c.tag # s)
    /\ ev' = Called("close_span", 0, <<>>)
    /\ UNCHANGED <<mem, nextSpan, steps, stash, written>>

----------------------------------------------------------------------------
\* Steps of the chain API.

Replace(i, c) == [cs EXCEPT ![i] = c]

Without(s, j) == SubSeq(s, 1, j - 1) \o SubSeq(s, j + 1, Len(s))

\* Position of container i once container j is consumed.
After(i, j) == IF j < i THEN i - 1 ELSE i

\* One more step of the chain API, while the caller has steps left.
Step == steps < MaxSteps /\ steps' = steps + 1

WrapRef(l, s) ==
    LET r == Borrow(l, s, FALSE) IN
    /\ Step
    /\ CanBorrow(r)
    /\ loans' = loans \cup {r}
    /\ cs' = Append(cs, wrap_ref(r))
    /\ ev' = Called("wrap_ref", Len(cs) + 1, <<s>>)
    /\ UNCHANGED <<mem, open, nextSpan, stash, written>>

WrapMut(l, s) ==
    LET r == Borrow(l, s, TRUE) IN
    /\ Step
    /\ CanBorrow(r)
    /\ loans' = loans \cup {r}
    /\ cs' = Append(cs, wrap_mut(r))
    /\ ev' = Called("wrap_mut", Len(cs) + 1, <<s>>)
    /\ UNCHANGED <<mem, open, nextSpan, stash, written>>

AddRef(i, l, s) ==
    LET r == Borrow(l, s, FALSE) IN
    /\ Step
    /\ CanAppend(cs[i])
    /\ CanBorrow(r)
    /\ loans' = loans \cup {r}
    /\ cs' = Replace(i, add_ref(cs[i], r))
    /\ ev' = Called("add_ref", i, <<cs[i].tag, s>>)
    /\ UNCHANGED <<mem, open, nextSpan, stash, written>>

AddMut(i, l, s) ==
    LET r == Borrow(l, s, TRUE) IN
    /\ Step
    /\ CanAppend(cs[i])
    /\ CanBorrow(r)
    /\ loans' = loans \cup {r}
    /\ cs' = Replace(i, add_mut(cs[i], r))
    /\ ev' = Called("add_mut", i, <<cs[i].tag, s>>)
    /\ UNCHANGED <<mem, open, nextSpan, stash, written>>

WrapLife(i) ==
    /\ Step
    /\ cs' = Replace(i, wrap_life(cs[i]))
    /\ ev' = Called("wrap_life", i, <<cs[i].tag>>)
    /\ UNCHANGED <<mem, open, nextSpan, loans, stash, written>>

\* self is covariant in its lifetime, so it is used at any 'a it outlives.
AddLife(i, j, a) ==
    /\ Step
    /\ i # j
    /\ CanAppend(cs[i])
    /\ Outlives(cs[i].tag, a)
    /\ add_life_where(cs[j].tag, a)
    /\ cs' = Without(Replace(i, add_life(cs[i], cs[j], a)), j)
    /\ ev' = Called("add_life", After(i, j), <<cs[i].tag, cs[j].tag>>)
    /\ UNCHANGED <<mem, open, nextSpan, loans, stash, written>>

\* a.wrap_life().add_life(b), the merge of the doc test's get_ab.
WrapLifeAddLife(i, j, a) ==
    /\ Step
    /\ i # j
    /\ CanAppend(wrap_life(cs[i]))
    /\ Outlives(cs[i].tag, a)
    /\ add_life_where(cs[j].tag, a)
    /\ cs' = Without(Replace(i, add_life(wrap_life(cs[i]), cs[j], a)), j)
    /\ ev' = Called("wrap_life.add_life", After(i, j), <<cs[i].tag, cs[j].tag>>)
    /\ UNCHANGED <<mem, open, nextSpan, loans, stash, written>>

MapLife(i, f) ==
    /\ Step
    /\ Accepts(f, cs[i].inner, stash)
    /\ cs' = Replace(i, map_life(cs[i], f))
    /\ stash' = Captured(f, cs[i].inner, stash)
    /\ ev' = Called("map_life", i, <<cs[i].tag>>)
    /\ UNCHANGED <<mem, open, nextSpan, loans, written>>

\* LifeRef::from(t) for an owned value t; the caller picks the lifetime.
From(a) ==
    /\ Step
    /\ cs' = Append(cs, LifeRef_from(Plain, a))
    /\ ev' = Called("from", Len(cs) + 1, <<a>>)
    /\ UNCHANGED <<mem, open, nextSpan, loans, stash, written>>

----------------------------------------------------------------------------
\* Operations on handles, and the owner's own reads.

RefDeref(h) ==
    /\ ev' = Event("deref", h, 0, Ref_deref(mem, h), FALSE)
    /\ UNCHANGED <<mem, open, nextSpan, steps, loans, cs, stash, written>>

RefEq(h, u) ==
    /\ ev' = Event("ref_eq", h, 0, u, Ref_eq(mem, h, u))
    /\ UNCHANGED <<mem, open, nextSpan, steps, loans, cs, stash, written>>

MutEq(h, u) ==
    /\ ev' = Event("mut_eq", h, 0, u, Mut_eq(mem, h, u))
    /\ UNCHANGED <<mem, open, nextSpan, steps, loans, cs, stash, written>>

MutGet(h, i) ==
    /\ ev' = Event("get", h, i, <<Cell_get(mem, h, i)>>, FALSE)
    /\ UNCHANGED <<mem, open, nextSpan, steps, loans, cs, stash, written>>

MutSet(h, i, v) ==
    /\ mem' = Cell_set(mem, h, i, v)
    /\ written' = [written EXCEPT ![h.loc][i] = v]
    /\ ev' = Event("set", h, i, <<v>>, FALSE)
    /\ UNCHANGED <<open, nextSpan, steps, loans, cs, stash>>

\* The owner reads its own field; the borrow checker allows it while no
\* exclusive loan on the field is live.
Owner(l) == [kind |-> "Owner", ptr |-> l, loc |-> l, span |-> Static, elems |-> <<>>]

OwnerRead(l, i) ==
    /\ \A b \in loans : b.loc = l => ~b.mut
    /\ ev' = Event("owner_read", Owner(l), i, <<mem[l][i]>>, FALSE)
    /\ UNCHANGED <<mem, open, nextSpan, steps, loans, cs, stash, written>>

----------------------------------------------------------------------------
\* The program: the caller's scopes, the chain API, the handles.

Next ==
    \/ OpenSpan
    \/ CloseSpan
    \/ \E l \in Locs, s \in Range(open) : WrapRef(l, s)
    \/ \E l \in Locs, s \in Range(open) : WrapMut(l, s)
    \/ \E i \in 1..Len(cs), l \in Locs, s \in Range(open) : AddRef(i, l, s)
    \/ \E i \in 1..Len(cs), l \in Locs, s \in Range(open) : AddMut(i, l, s)
    \/ \E i \in 1..Len(cs) : WrapLife(i)
    \/ \E i, j \in 1..Len(cs), a \in LiveSpans : AddLife(i, j, a)
    \/ \E i, j \in 1..Len(cs), a \in LiveSpans : WrapLifeAddLife(i, j, a)
    \/ \E i \in 1..Len(cs), f \in Fns : MapLife(i, f)
    \/ \E a \in LiveSpans : From(a)
    \/ \E h \in Handles("Ref") : RefDeref(h)
    \/ \E h \in Handles("Ref") : \E u \in ValuesOf(h.loc) : RefEq(h, u)
    \/ \E h \in Handles("Mut") : \E u \in ValuesOf(h.loc) : MutEq(h, u)
    \/ \E h \in Handles("Mut") : \E i \in 1..Width(h.loc) : MutGet(h, i)
    \/ \E h \in Handles("Mut") : \E i \in 1..Width(h.loc), v \in Vals : MutSet(h, i, v)
    \/ \E l \in Locs : \E i \in 1..Width(l) : OwnerRead(l, i)

Spec == Init /\ [][Next]_vars

\* The chain API alone: no operation on a handle changes a container, a
\* loan or a span, so these are the program's behaviours seen on cs.
NextChain ==
    \/ OpenSpan
    \/ CloseSpan
    \/ \E l \in Locs, s \in Range(open) : WrapRef(l, s)
    \/ \E l \in Locs, s \in Range(open) : WrapMut(l, s)
    \/ \E i \in 1..Len(cs), l \in Locs, s \in Range(open) : AddRef(i, l, s)
    \/ \E i \in 1..Len(cs), l \in Locs, s \in Range(open) : AddMut(i, l, s)
    \/ \E i \in 1..Len(cs) : WrapLife(i)
    \/ \E i, j \in 1..Len(cs), a \in LiveSpans : AddLife(i, j, a)
    \/ \E i, j \in 1..Len(cs), a \in LiveSpans : WrapLifeAddLife(i, j, a)
    \/ \E i \in 1..Len(cs), f \in Fns : MapLife(i, f)
    \/ \E a \in LiveSpans : From(a)

SpecChain == Init /\ [][NextChain]_vars

\* The handles alone: containers are built by wrap_ref, wrap_mut and
\* map_life only. What a handle reads and writes depends on the handle and
\* on memory, not on the tuple it sits in.
NextHandles ==
    \/ OpenSpan
    \/ CloseSpan
    \/ \E l \in Locs, s \in Range(open) : WrapRef(l, s)
    \/ \E l \in Locs, s \in Range(open) : WrapMut(l, s)
    \/ \E i \in 1..Len(cs), f \in Fns : MapLife(i, f)
    \/ \E h \in Handles("Ref") : RefDeref(h)
    \/ \E h \in Handles("Ref") : \E u \in ValuesOf(h.loc) : RefEq(h, u)
    \/ \E h \in Handles("Mut") : \E u \in ValuesOf(h.loc) : MutEq(h, u)
    \/ \E h \in Handles("Mut") : \E i \in 1..Width(h.loc) : MutGet(h, i)
    \/ \E h \in Handles("Mut") : \E i \in 1..Width(h.loc), v \in Vals : MutSet(h, i, v)
    \/ \E l \in Locs : \E i \in 1..Width(l) : OwnerRead(l, i)

SpecHandles == Init /\ [][NextHandles]_vars

----------------------------------------------------------------------------
\* Properties.

HandleOps == {"deref", "ref_eq", "mut_eq", "get", "set"}

\* C1: a handle obtained from a borrow with span L is never read or used
\* after L has ended, whatever closure the caller passes to map_life.
C1_NoUseAfterSpanEnd == ev.op \in HandleOps => IsLive(ev.h.span)

\* Every handle the caller holds, one entry per handle: those in its
\* containers, then the one in the captured cell.
Held == FlatFrom([k \in 1..Len(cs) |-> cs[k].inner] \o <<stash>>, 1)

\* C4: while a Mut is held it is the only access path to its memory: no
\* other held handle (Ref or Mut, in any container) points at the same place,
\* and the owner's own access is shut out by a live exclusive loan.
C4_ExclusiveMutator ==
    /\ \A x, y \in 1..Len(Held) :
          (x # y /\ Held[x].ptr = Held[y].ptr)
              => (Held[x].kind = "Ref" /\ Held[y].kind = "Ref")
    /\ \A x \in 1..Len(Held) :
          Held[x].kind = "Mut"
              => \E b \in loans : b.loc = Held[x].ptr /\ b.mut

\* new is old with one more element at the end: a handle of kind k on the
\* borrow of place l for span s.
Appended(old, new, k, l, s) ==
    /\ Len(new) = Len(old) + 1
    /\ \A n \in 1..Len(old) : new[n] = old[n]
    /\ new[Len(new)].kind = k
    /\ new[Len(new)].ptr = l
    /\ new[Len(new)].span = s

\* C2: the bundle's element order is the call order: wrap_ref/wrap_mut make
\* position 0, every add_ref/add_mut keeps the elements already there at
\* their positions and puts the new handle last; nothing is reordered or
\* dropped as a duplicate.
C2_OrderIsCallOrder ==
    [][\A l \in Locs, s \in Range(open) :
          /\ WrapRef(l, s) => Appended(<<>>, cs'[Len(cs')].inner.elems, "Ref", l, s)
          /\ WrapMut(l, s) => Appended(<<>>, cs'[Len(cs')].inner.elems, "Mut", l, s)
          /\ \A i \in 1..Len(cs) :
                /\ AddRef(i, l, s) =>
                      Appended(cs[i].inner.elems, cs'[i].inner.elems, "Ref", l, s)
                /\ AddMut(i, l, s) =>
                      Appended(cs[i].inner.elems, cs'[i].inner.elems, "Mut", l, s)
      ]_vars

\* A bundle of three handles built by wrap_ref, add_mut, add_mut or the like,
\* with a shared borrow first and an exclusive one last.
C2_Witness ==
    /\ ev.op = "add_mut"
    /\ Len(cs[ev.idx].inner.elems) = 3
    /\ cs[ev.idx].inner.elems[1].kind = "Ref"
    /\ cs[ev.idx].inner.elems[3].kind = "Mut"

\* C3: the container a chain operation returns is outlived by every
\* container and borrow the operation was given: add_life's result ends no
\* later than the shorter of its two inputs, and no operation widens a span.
C3_NeverWidened ==
    ev.op \in {"add_ref", "add_mut", "wrap_life", "add_life",
               "wrap_life.add_life", "map_life"}
        => \A k \in 1..Len(ev.val) : Outlives(ev.val[k], cs[ev.idx].tag)

\* add_life of a container of span 1 with one of the shorter span 2.
C3_Witness ==
    /\ ev.op = "add_life"
    /\ ev.val = <<1, 2>>
    /\ cs[ev.idx].tag = 2

\* C7: a.wrap_life().add_life(b) is a pair: element 0 is a's wrapped value,
\* element 1 is b's wrapped value, each unchanged.
C7_MergeKeepsBothHalves ==
    [][\A i, j \in 1..Len(cs), a \in LiveSpans :
          WrapLifeAddLife(i, j, a) =>
              LET r == cs'[After(i, j)].inner IN
              /\ r.kind = "Tup"
              /\ Len(r.elems) = 2
              /\ r.elems[1] = cs[i].inner
              /\ r.elems[2] = cs[j].inner
      ]_vars

\* Two containers of one handle each, merged.
C7_Witness ==
    /\ ev.op = "wrap_life.add_life"
    /\ Len(cs[ev.idx].inner.elems) = 2
    /\ Len(Flat(cs[ev.idx].inner.elems[1])) = 1
    /\ Len(Flat(cs[ev.idx].inner.elems[2])) = 1

\* C8: map_life(f) wraps f applied once to the old wrapped value and keeps
\* the lifetime tag; with the identity the container and the referents are
\* as before.
C8_MapAppliesOnceKeepsTag ==
    [][\A i \in 1..Len(cs), f \in Fns :
          MapLife(i, f) =>
              /\ cs'[i].inner = ApplyF(f, cs[i].inner)
              /\ cs'[i].tag = cs[i].tag
              /\ f = "id" => (cs'[i] = cs[i] /\ mem' = mem)
      ]_vars

\* map_life has projected a tuple onto its first handle, in a span that ends.
C8_Witness ==
    /\ ev.op = "map_life"
    /\ IsHandle(cs[ev.idx].inner)
    /\ cs[ev.idx].tag # Static

\* C5: set(v) directly followed by get() on the same handle and element
\* returns v.
C5_SetThenGet ==
    [][(ev.op = "set" /\ ev'.op = "get" /\ ev'.h = ev.h /\ ev'.idx = ev.idx)
          => ev'.val = ev.val]_vars

\* A get that returned a value only a set can have stored.
C5_Witness == ev.op = "get" /\ ev.val = <<1>>

\* C6: a value stored through a Mut is in the owner's memory and stays:
\* the owner, and every handle made from a borrow of the place (also one
\* made after the writing container's span ended), reads the value last
\* stored into it.
C6_WrittenThrough ==
    /\ \A l \in Locs : mem[l] = written[l]
    /\ ev.op \in {"owner_read", "get"} => ev.val = <<written[ev.h.loc][ev.idx]>>
    /\ ev.op = "deref" => ev.val = written[ev.h.loc]

\* Every span has ended and the owner reads, in its sequence, the element a
\* cell of as_slice_of_cells was set to.
C6_Witness ==
    /\ ev.op = "owner_read"
    /\ ev.h.loc = 2
    /\ ev.idx = 2
    /\ ev.val = <<1>>
    /\ open = <<>>

\* C9: h == u is the referent's current value compared with u, for Ref and
\* for Mut; dereferencing a Ref gives the referent's value.
C9_EqDelegates ==
    /\ ev.op \in {"ref_eq", "mut_eq"} => ev.res = (mem[ev.h.loc] = ev.val)
    /\ ev.op = "deref" => ev.val = mem[ev.h.loc]

\* A Ref compares equal to a value that was written through a Mut.
C9_Witness ==
    /\ ev.op = "ref_eq"
    /\ ev.res
    /\ 1 \in Range(ev.val)

\* C10: only a set through a Mut changes owner memory, and it changes the
\* one element it targets; every other operation leaves memory as it was.
C10_Frame ==
    [][IF ev'.op = "set"
       THEN \A l \in Locs : \A k \in 1..Width(l) :
                (l # ev'.h.loc \/ k # ev'.idx) => mem'[l][k] = mem[l][k]
       ELSE mem' = mem]_vars

\* A set of one element of the sequence that left the other element, set
\* earlier, as it was.
C10_Witness ==
    /\ ev.op = "set"
    /\ ev.h.loc = 2
    /\ ev.idx = 2
    /\ ev.val = <<0>>
    /\ mem[2] = <<1, 0>>

====
